---- MODULE Spec2Model ----
(***************************************************************************)
(* Order-profitability pipeline of the HomeCooks dashboard:                *)
(*   fetch (Linnworks, Shopify) -> get_dispatch_info -> process_orders     *)
(*   -> aggregation, together with the variant-cost cache (costing.py)     *)
(*   and the HTTP request loops of the two API clients.                    *)
(*                                                                         *)
(* Conventions of the model                                                *)
(*   - a Python str is a sequence of one-character strings;                *)
(*   - a dict key is a tagged pair <<"int", n>> or <<"str", s>>, since a   *)
(*     Python dict keeps the int 1 and the str "1" apart;                  *)
(*   - money is an integer number of pence; a float quotient is a record   *)
(*     [kind, num, den] (kind "fin", "inf", "-inf" or "nan");              *)
(*   - a datetime is a day number, day 0 being Monday 2024-01-01;          *)
(*   - None is NoDate for a datetime, NoCost for a cost, NoVal for an      *)
(*     absent money field, NoMetrics for a missing OrderMetrics.           *)
(***************************************************************************)
EXTENDS Integers, Sequences, FiniteSets, TLC

VARIABLES
    lwStore,          \* Linnworks: the processed-order records held remotely
    shStore,          \* Shopify: the order records held remotely
    remote_cost,      \* Shopify: InventoryItem.cost per variant id
    pc,               \* position of the pipeline
    linnworks_orders, \* list returned by get_processed_orders
    dispatch_info,    \* dict built by get_dispatch_info
    orders,           \* list of Shopify order dicts handed to process_orders
    idx,              \* process_orders: number of orders handled so far
    results,          \* process_orders: list of OrderMetrics
    skipped,          \* process_orders: skipped_not_dispatched
    progress,         \* calls made to progress_callback
    kpis,             \* calculate_kpis / calculate_d2c_period_metrics / weekly
    cost_cache,       \* st.session_state.cost_cache
    missing_costs,    \* st.session_state.missing_costs
    fetch_memo,       \* st.cache_data store of _fetch_variant_cost
    now,              \* wall clock, in seconds
    fetch_count,      \* remote cost fetches per variant since clear_cache
    first_lookup,     \* first result per variant since clear_cache
    last_lookup,      \* the last CostLookupResult returned, with its age
    http,             \* state of the HTTP request loops of the clients
    pack,             \* calculate_packaging_cost: the argument and the result
    win,              \* dashboards: today and the comparison windows computed
    filtered,         \* filter_by_weekday: the arguments and the result
    last_data_refresh,\* st.session_state['last_data_refresh']
    data_cache,       \* st.cache_data store of the order fetch functions
    proc_cache,       \* st.session_state['proc_...']: processed orders
    refresh_log,      \* check_daily_refresh: the last call and its result
    served            \* what the last page load showed, with its age

pipeVars  == <<lwStore, shStore, pc, linnworks_orders, dispatch_info, orders,
               idx, results, skipped, progress, kpis>>
costVars  == <<remote_cost, cost_cache, missing_costs, fetch_memo, now,
               fetch_count, first_lookup, last_lookup>>
refreshVars == <<last_data_refresh, data_cache, proc_cache, refresh_log,
                 served>>
appVars   == <<win, filtered, last_data_refresh, data_cache, proc_cache,
               refresh_log, served>>
vars      == <<lwStore, shStore, remote_cost, pc, linnworks_orders,
               dispatch_info, orders, idx, results, skipped, progress, kpis,
               cost_cache, missing_costs, fetch_memo, now, fetch_count,
               first_lookup, last_lookup, http, pack, win, filtered,
               last_data_refresh, data_cache, proc_cache, refresh_log, served>>

(***************************************************************************)
(* None values and small helpers                                           *)
(***************************************************************************)
NoDate == 0 - 1
NoCost == 0 - 1
NoVal  == 0 - 1
NoMetrics == [none |-> TRUE]
NoInfo == [none |-> TRUE]
EmptyDict == [k \in {} |-> NoInfo]

Put(d, k, v) == [x \in (DOMAIN d) \cup {k} |-> IF x = k THEN v ELSE d[x]]
Get(d, k) == IF k \in DOMAIN d THEN d[k] ELSE NoInfo

Min(S) == CHOOSE x \in S : \A y \in S : x <= y
Abs(x) == IF x < 0 THEN 0 - x ELSE x

RECURSIVE SumSeq(_)
SumSeq(s) == IF s = <<>> THEN 0 ELSE Head(s) + SumSeq(Tail(s))

(***************************************************************************)
(* Python str operations used on reference numbers and order names        *)
(***************************************************************************)
Digits == <<"0", "1", "2", "3", "4", "5", "6", "7", "8", "9">>
DigitSet == {Digits[i] : i \in 1..10}
DigitVal(c) == (CHOOSE i \in 1..10 : Digits[i] = c) - 1

\* s.replace('#', '')
RemoveHash(s) == SelectSeq(s, LAMBDA c : c # "#")

\* s.strip()
RECURSIVE LStrip(_)
LStrip(s) == IF s # <<>> /\ Head(s) = " " THEN LStrip(Tail(s)) ELSE s
RECURSIVE RStrip(_)
RStrip(s) == IF s # <<>> /\ s[Len(s)] = " "
             THEN RStrip(SubSeq(s, 1, Len(s) - 1)) ELSE s
Strip(s) == RStrip(LStrip(s))

\* ref_num.replace('#', '').strip()
CleanRef(s) == Strip(RemoveHash(s))

\* int(s) succeeds (no ValueError); s is already stripped
IsNumeric(s) == s # <<>> /\ \A i \in 1..Len(s) : s[i] \in DigitSet
\* int(s)
RECURSIVE ToInt(_)
ToInt(s) == IF s = <<>> THEN 0
            ELSE 10 * ToInt(SubSeq(s, 1, Len(s) - 1)) + DigitVal(s[Len(s)])
\* str(n) for n >= 0
RECURSIVE Str(_)
Str(n) == IF n < 10 THEN <<Digits[n + 1]>>
          ELSE Str(n \div 10) \o <<Digits[(n % 10) + 1]>>

IntKey(n) == <<"int", n>>
StrKey(s) == <<"str", s>>

(***************************************************************************)
(* Dates                                                                   *)
(***************************************************************************)
\* a raw date string: absent/empty, unparseable, or the ISO text of day d
RawNone == <<"none">>
RawBad  == <<"bad">>
RawIso(d) == <<"iso", d>>

\* metrics.parse_datetime and linnworks_client.parse_linnworks_date
parse_datetime(raw) == IF raw[1] = "iso" THEN raw[2] ELSE NoDate
parse_linnworks_date(raw) == IF raw[1] = "iso" THEN raw[2] ELSE NoDate

WeekdayNames == <<"Monday", "Tuesday", "Wednesday", "Thursday", "Friday",
                  "Saturday", "Sunday">>
\* dt.strftime("%A")
Weekday(d) == WeekdayNames[(d % 7) + 1]

\* calendar years the model covers: 2024 (a leap year, days 0..365), 2025
YearOf(d) == IF d < 366 THEN 2024 ELSE 2025
YearStart(d) == IF d < 366 THEN 0 ELSE 366
\* get_iso_week: the ISO year and week are those of the week's Thursday
get_iso_week(d) ==
    LET thursday == d - (d % 7) + 3
    IN  <<YearOf(thursday), ((thursday - YearStart(thursday)) \div 7) + 1>>

(***************************************************************************)
(* linnworks_client.get_dispatch_info                                      *)
(***************************************************************************)
\* the info dict built for one Linnworks record
DispatchRecord(order) ==
    [processed_date  |-> parse_linnworks_date(order.dProcessedOn),
     shipping_method |-> order.PostalServiceName,
     customer_name   |-> order.cFullName]

\* the keys one record is stored under, in the order they are written
DispatchKeysMissingInt(ref_num) ==
    <<StrKey(ref_num), StrKey(CleanRef(ref_num))>>
DispatchKeys(ref_num) ==
    LET clean_ref == CleanRef(ref_num)
    IN  <<StrKey(ref_num), StrKey(clean_ref)>>
        \o (IF IsNumeric(clean_ref) THEN <<IntKey(ToInt(clean_ref))>>
            ELSE <<>>)

RECURSIVE PutAll(_, _, _)
PutAll(d, keys, v) ==
    IF keys = <<>> THEN d ELSE PutAll(Put(d, Head(keys), v), Tail(keys), v)

\* one iteration of the loop over linnworks_orders
DispatchStep(d, order) ==
    IF order.ReferenceNum = <<>> THEN d
    ELSE PutAll(d, DispatchKeys(order.ReferenceNum), DispatchRecord(order))

RECURSIVE get_dispatch_info_from(_, _)
get_dispatch_info_from(d, recs) ==
    IF recs = <<>> THEN d
    ELSE get_dispatch_info_from(DispatchStep(d, Head(recs)), Tail(recs))
get_dispatch_info(recs) == get_dispatch_info_from(EmptyDict, recs)

(***************************************************************************)
(* metrics.process_order: the dispatch date                                *)
(***************************************************************************)
\* "if not lw_info": a missing entry; an info dict is never empty
Found(lw_info) == lw_info # NoInfo

\* lines 276-287: the record the lookup chain settles on
LookupDispatch(order, d) ==
    LET by_id   == Get(d, IntKey(order.id))
        by_str  == IF Found(by_id) THEN by_id
                   ELSE Get(d, StrKey(Str(order.id)))
        by_name == IF Found(by_str) THEN by_str
                   ELSE LET clean == Get(d, StrKey(CleanRef(order.name)))
                        IN  IF Found(clean) THEN clean
                            ELSE Get(d, StrKey(order.name))
    IN  by_name

\* lines 276-290: the Linnworks date, or None
LinnworksDate(order, d) ==
    IF DOMAIN d = {} THEN NoDate
    ELSE LET lw_info == LookupDispatch(order, d)
         IN  IF Found(lw_info) /\ lw_info.processed_date # NoDate
             THEN lw_info.processed_date ELSE NoDate

is_order_fulfilled(order) == Len(order.fulfillments) > 0

get_sent_out_at(order) ==
    LET fulfillment_dates ==
            {parse_datetime(order.fulfillments[i]) :
                i \in 1..Len(order.fulfillments)} \ {NoDate}
    IN  IF fulfillment_dates = {} THEN NoDate ELSE Min(fulfillment_dates)

\* lines 272-299
SentOutAtCreated(order, d) ==
    LET lw == LinnworksDate(order, d)
    IN  IF lw # NoDate THEN lw
        ELSE IF is_order_fulfilled(order) /\ get_sent_out_at(order) # NoDate
        THEN get_sent_out_at(order)
        ELSE parse_datetime(order.created_at)
SentOutAt(order, d) ==
    LET lw == LinnworksDate(order, d)
    IN  IF lw # NoDate THEN lw
        ELSE IF is_order_fulfilled(order) THEN get_sent_out_at(order)
        ELSE NoDate

(***************************************************************************)
(* costing.py: packaging                                                   *)
(***************************************************************************)
PackagingComponents == <<"Box", "Wool", "Coolant", "Shipping", "Pick & Pack">>
\* PACKAGING_COSTS, in pence
PACKAGING_COSTS ==
    [small |-> [c \in {"Box", "Wool", "Coolant", "Shipping", "Pick & Pack"} |->
                  CASE c = "Box" -> 111 [] c = "Wool" -> 100
                    [] c = "Coolant" -> 60 [] c = "Shipping" -> 645
                    [] c = "Pick & Pack" -> 350],
     large |-> [c \in {"Box", "Wool", "Coolant", "Shipping", "Pick & Pack"} |->
                  CASE c = "Box" -> 136 [] c = "Wool" -> 150
                    [] c = "Coolant" -> 100 [] c = "Shipping" -> 645
                    [] c = "Pick & Pack" -> 350]]

SumComponents(f) ==
    SumSeq([i \in 1..Len(PackagingComponents) |-> f[PackagingComponents[i]]])

get_packaging_totals ==
    [small |-> SumComponents(PACKAGING_COSTS.small),
     large |-> SumComponents(PACKAGING_COSTS.large)]

determine_box_type(item_count) ==
    IF item_count <= 10 THEN <<"small", 1>>
    ELSE IF item_count <= 16 THEN <<"large", 1>>
    ELSE <<"large", 2>>

calculate_packaging_cost(item_count) ==
    LET bt == determine_box_type(item_count)
        base_costs == PACKAGING_COSTS[bt[1]]
        breakdown == [c \in DOMAIN base_costs |-> base_costs[c] * bt[2]]
    IN  [total |-> SumComponents(breakdown), box_type |-> bt[1],
         multiplier |-> bt[2], breakdown |-> breakdown]

(***************************************************************************)
(* costing.py: the variant-cost cache                                      *)
(* A cost state cs is [cache, missing, memo, count, first, last]:          *)
(*   cache, missing  st.session_state.cost_cache / missing_costs           *)
(*   memo            the st.cache_data store of _fetch_variant_cost        *)
(*   count, first, last   history: remote fetches per variant, the first   *)
(*                   result per variant, the last result returned          *)
(* A cached cost carries the time it was fetched from the API ("at"); in   *)
(* cost_cache that time is history only, the code does not keep it.        *)
(***************************************************************************)
\* ttl of st.cache_data on _fetch_variant_cost, in seconds
TTL == 3600

\* st.cache_data: an entry is served while it is younger than the ttl
MemoValid(memo, variant_id, t) ==
    variant_id \in DOMAIN memo /\ t - memo[variant_id].at < TTL

\* _fetch_variant_cost under st.cache_data(ttl=3600)
FetchNeverExpires(cs, variant_id, t, remote) ==
    IF variant_id \in DOMAIN cs.memo
    THEN [cost |-> cs.memo[variant_id].cost, at |-> cs.memo[variant_id].at,
          cs |-> cs]
    ELSE [cost |-> remote[variant_id], at |-> t,
          cs |-> [cs EXCEPT
                    !.memo = Put(cs.memo, variant_id,
                                 [cost |-> remote[variant_id], at |-> t]),
                    !.count = [cs.count EXCEPT ![variant_id] = @ + 1]]]
_fetch_variant_cost(cs, variant_id, t, remote) ==
    IF MemoValid(cs.memo, variant_id, t)
    THEN [cost |-> cs.memo[variant_id].cost, at |-> cs.memo[variant_id].at,
          cs |-> cs]
    ELSE [cost |-> remote[variant_id], at |-> t,
          cs |-> [cs EXCEPT
                    !.memo = Put(cs.memo, variant_id,
                                 [cost |-> remote[variant_id], at |-> t]),
                    !.count = [cs.count EXCEPT ![variant_id] = @ + 1]]]

\* CostCache.get: (cost, is_cached)
CostCacheGet(cache, variant_id) ==
    IF variant_id \in DOMAIN cache
    THEN [cost |-> cache[variant_id].cost, is_cached |-> TRUE]
    ELSE [cost |-> NoCost, is_cached |-> FALSE]

\* CostCache.set
CostCacheSet(cs, variant_id, cost, at) ==
    [cs EXCEPT !.cache = Put(cs.cache, variant_id, [cost |-> cost, at |-> at]),
               !.missing = IF cost = NoCost THEN @ \cup {variant_id} ELSE @]

\* the history kept about the results of get_variant_cost: the first result
\* per variant, and the last result with the time of the call and whether
\* the session cache answered it
Record(cs, variant_id, res, t, is_cached) ==
    [cs EXCEPT !.first = IF variant_id \in DOMAIN cs.first THEN @
                         ELSE Put(@, variant_id, res),
               !.last = res @@ [called |-> t, is_cached |-> is_cached]]

\* CostLookupResult(cost, found, variant_id), with the time the cost was
\* fetched from the API
CostLookupResult(cost, at, variant_id) ==
    [cost |-> cost, found |-> cost # NoCost, variant_id |-> variant_id,
     at |-> at]

\* return res from get_variant_cost at time t, leaving the cost state cs
Returned(cs, res, t, is_cached) ==
    res @@ [cs |-> Record(cs, res.variant_id, res, t, is_cached)]

\* lines 121-128: store the fetched cost f in the session cache, return it
StoreFetched(f, variant_id, t) ==
    Returned(CostCacheSet(f.cs, variant_id, f.cost, f.at),
             CostLookupResult(f.cost, f.at, variant_id), t, FALSE)

\* CostingService.get_variant_cost; variant_id 0 stands for None
GetVariantCostNoCache(cs, variant_id, t, remote) ==
    IF variant_id = 0
    THEN [cost |-> NoCost, found |-> FALSE, variant_id |-> variant_id,
          at |-> t, cs |-> cs]
    ELSE StoreFetched(_fetch_variant_cost(cs, variant_id, t, remote),
                      variant_id, t)
get_variant_cost(cs, variant_id, t, remote) ==
    IF variant_id = 0
    THEN [cost |-> NoCost, found |-> FALSE, variant_id |-> variant_id,
          at |-> t, cs |-> cs]
    ELSE IF CostCacheGet(cs.cache, variant_id).is_cached
    THEN Returned(cs, CostLookupResult(CostCacheGet(cs.cache, variant_id).cost,
                                       cs.cache[variant_id].at, variant_id),
                  t, TRUE)
    ELSE StoreFetched(_fetch_variant_cost(cs, variant_id, t, remote),
                      variant_id, t)

\* CostingService.get_line_item_cost
get_line_item_cost(cs, line_item, t, remote) ==
    get_variant_cost(cs, line_item.variant_id, t, remote) @@
        [sku |-> line_item.sku]

\* lines 162-168: (line_cogs, has_cost, unit_cost) from the lookup result
LineCogs(cost_result, quantity) ==
    IF cost_result.found /\ cost_result.cost # NoCost
    THEN [line_cogs |-> cost_result.cost * quantity,
          has_cost |-> TRUE, unit_cost |-> cost_result.cost,
          cs |-> cost_result.cs]
    ELSE [line_cogs |-> 0, has_cost |-> FALSE, unit_cost |-> NoCost,
          cs |-> cost_result.cs]

\* CostingService.calculate_line_cogs
calculate_line_cogs(cs, line_item, t, remote) ==
    LineCogs(get_line_item_cost(cs, line_item, t, remote), line_item.quantity)

(***************************************************************************)
(* Float quotients                                                         *)
(***************************************************************************)
Fin(n, d) == [kind |-> "fin", num |-> n, den |-> d]
Inf == [kind |-> "inf", num |-> 1, den |-> 0]
NegInf == [kind |-> "-inf", num |-> 0 - 1, den |-> 0]
NaN == [kind |-> "nan", num |-> 0, den |-> 0]
ZeroFloat == Fin(0, 1)
IsZero(f) == f.kind = "fin" /\ f.num = 0

\* pandas: a / b * 100 on float columns, then .fillna(0)
PandasPct(a, b) ==
    IF b # 0 THEN Fin(a * 100, b)
    ELSE IF a > 0 THEN Inf ELSE IF a < 0 THEN NegInf ELSE NaN
fillna0(f) == IF f.kind = "nan" THEN ZeroFloat ELSE f

(***************************************************************************)
(* metrics.py: per-order calculations                                      *)
(***************************************************************************)
\* a or b, for optional money strings: a present string is truthy
OrElse(a, b) == IF a # NoVal THEN a ELSE b

LineGross(item) == item.price * item.quantity

count_distinct_skus(line_items) ==
    Cardinality(
        {<<"sku", line_items[i].sku>> :
            i \in {j \in 1..Len(line_items) : line_items[j].sku # ""}}
        \cup
        {<<"vid", line_items[i].variant_id>> :
            i \in {j \in 1..Len(line_items) :
                     line_items[j].sku = "" /\ line_items[j].variant_id # 0}})

TotalUnits(line_items) ==
    SumSeq([i \in 1..Len(line_items) |-> line_items[i].quantity])

GrossItemValue(line_items) ==
    SumSeq([i \in 1..Len(line_items) |-> LineGross(line_items[i])])

\* order.get("current_total_discounts") or order.get("total_discounts") or 0
OrderDiscount(order) ==
    LET v == OrElse(order.current_total_discounts, order.total_discounts)
    IN  IF v = NoVal THEN 0 ELSE v

calculate_line_item_discounts_even(order, line_items) ==
    LET n == Len(line_items)
        total_gross == GrossItemValue(line_items)
        has_allocations ==
            \E i \in 1..n : line_items[i].discount_allocations # <<>>
        total_discount == OrderDiscount(order)
    IN  IF has_allocations
        THEN [i \in 1..n |-> Fin(SumSeq(line_items[i].discount_allocations), 1)]
        ELSE IF total_gross > 0 /\ total_discount > 0
        THEN [i \in 1..n |-> Fin(total_discount, n)]
        ELSE [i \in 1..n |-> ZeroFloat]
calculate_line_item_discounts(order, line_items) ==
    LET n == Len(line_items)
        total_gross == GrossItemValue(line_items)
        has_allocations ==
            \E i \in 1..n : line_items[i].discount_allocations # <<>>
        total_discount == OrderDiscount(order)
    IN  IF has_allocations
        THEN [i \in 1..n |-> Fin(SumSeq(line_items[i].discount_allocations), 1)]
        ELSE IF total_gross > 0 /\ total_discount > 0
        THEN [i \in 1..n |->
                Fin(total_discount * LineGross(line_items[i]), total_gross)]
        ELSE [i \in 1..n |-> ZeroFloat]

\* (gross_item_value, total_discounts, net_revenue)
calculate_order_revenue(order) ==
    LET gross_item_value == GrossItemValue(order.line_items)
        total_discounts == OrderDiscount(order)
        current_subtotal == order.current_subtotal_price
    IN  IF current_subtotal # NoVal
        THEN LET calculated_discount == gross_item_value - current_subtotal
             IN  [gross_item_value |-> gross_item_value,
                  total_discounts |-> IF calculated_discount > 0
                                      THEN calculated_discount
                                      ELSE total_discounts,
                  net_revenue |-> current_subtotal]
        ELSE LET subtotal == OrElse(order.subtotal_price, gross_item_value)
                 net == subtotal - total_discounts
             IN  [gross_item_value |-> gross_item_value,
                  total_discounts |-> total_discounts,
                  net_revenue |->
                     IF Abs(net - subtotal) < 1 /\ total_discounts > 0
                        /\ Abs(gross_item_value - subtotal - total_discounts) < 1
                     THEN subtotal ELSE net]

\* lines 367-399: one iteration of the loop over line items; c is the
\* result of calculate_line_cogs for the item
ProcessLine(acc, item, discount, c) ==
    [cs |-> c.cs,
     total_cogs |-> acc.total_cogs + c.line_cogs,
     missing_cost_count |-> acc.missing_cost_count
                            + (IF c.has_cost THEN 0 ELSE 1),
     line_items |->
        Append(acc.line_items,
               [sku |-> item.sku, variant_id |-> item.variant_id,
                quantity |-> item.quantity, unit_price |-> item.price,
                gross_value |-> LineGross(item),
                line_discount |-> discount,
                net_revenue |->
                    Fin(LineGross(item) * discount.den - discount.num,
                        discount.den),
                unit_cost |-> c.unit_cost, line_cogs |-> c.line_cogs,
                has_cost |-> c.has_cost])]

\* the loop over line items, threading the cost caches
RECURSIVE ProcessLines(_, _, _, _, _, _)
ProcessLines(line_items, i, discounts, acc, t, remote) ==
    IF i > Len(line_items) THEN acc
    ELSE ProcessLines(line_items, i + 1, discounts,
             ProcessLine(acc, line_items[i], discounts[i],
                 calculate_line_cogs(acc.cs, line_items[i], t, remote)),
             t, remote)

\* lines 404-414
ProfitNoPackaging(net_revenue, total_cogs, packaging_total) ==
    [gross_profit |-> net_revenue - total_cogs,
     contribution |-> net_revenue - total_cogs,
     gross_margin_pct |->
         IF net_revenue > 0 THEN Fin((net_revenue - total_cogs) * 100,
                                     net_revenue)
         ELSE ZeroFloat,
     contribution_margin_pct |->
         IF net_revenue > 0 THEN Fin((net_revenue - total_cogs) * 100,
                                     net_revenue)
         ELSE ZeroFloat]
Profit(net_revenue, total_cogs, packaging_total) ==
    LET gross_profit == net_revenue - total_cogs
        contribution == net_revenue - total_cogs - packaging_total
    IN  [gross_profit |-> gross_profit,
         contribution |-> contribution,
         gross_margin_pct |->
             IF net_revenue > 0 THEN Fin(gross_profit * 100, net_revenue)
             ELSE ZeroFloat,
         contribution_margin_pct |->
             IF net_revenue > 0 THEN Fin(contribution * 100, net_revenue)
             ELSE ZeroFloat]

\* lines 416-446: the OrderMetrics built from the parts computed before;
\* pr holds the profit figures of lines 404-414.  The customer name,
\* currency and shipping_paid fields are display data and are left out.
OrderMetrics(order, sent_out_at, rev, lines, pk, pr) ==
    [order_id |-> order.id, order_name |-> order.name,
     sent_out_at |-> sent_out_at,
     sent_out_weekday |-> Weekday(sent_out_at),
     sent_out_week |-> get_iso_week(sent_out_at),
     gross_item_value |-> rev.gross_item_value,
     total_discounts |-> rev.total_discounts,
     net_revenue |-> rev.net_revenue,
     cogs |-> lines.total_cogs,
     packaging_total |-> pk.total,
     box_type |-> pk.box_type,
     box_multiplier |-> pk.multiplier,
     packaging_breakdown |-> pk.breakdown,
     gross_profit |-> pr.gross_profit,
     contribution |-> pr.contribution,
     gross_margin_pct |-> pr.gross_margin_pct,
     contribution_margin_pct |-> pr.contribution_margin_pct,
     sku_count |-> count_distinct_skus(order.line_items),
     total_units |-> TotalUnits(order.line_items),
     line_items |-> lines.line_items,
     missing_cost_count |-> lines.missing_cost_count]

\* lines 301-446: an order that has a dispatch date
ProcessDispatched(order, sent_out_at, rev, lines, pk) ==
    [metrics |-> OrderMetrics(order, sent_out_at, rev, lines, pk,
                     Profit(rev.net_revenue, lines.total_cogs, pk.total)),
     cs |-> lines.cs]

\* lines 272-299: None for an order without a dispatch date
ProcessWithDate(order, sent_out_at, cs, t, remote) ==
    IF sent_out_at = NoDate THEN [metrics |-> NoMetrics, cs |-> cs]
    ELSE ProcessDispatched(order, sent_out_at,
             calculate_order_revenue(order),
             ProcessLines(order.line_items, 1,
                 calculate_line_item_discounts(order, order.line_items),
                 [cs |-> cs, total_cogs |-> 0, missing_cost_count |-> 0,
                  line_items |-> <<>>], t, remote),
             calculate_packaging_cost(TotalUnits(order.line_items)))

\* process_order: the OrderMetrics (or NoMetrics for None) and the cost state
process_order(order, cs, d, t, remote) ==
    ProcessWithDate(order, SentOutAt(order, d), cs, t, remote)

(***************************************************************************)
(* Aggregation                                                             *)
(***************************************************************************)
SumField(ms, f) == SumSeq([i \in 1..Len(ms) |-> ms[i][f]])

\* metrics.calculate_kpis
calculate_kpis_before_packaging(ms) ==
    IF ms = <<>>
    THEN [total_orders |-> 0, total_units |-> 0, gross_item_value |-> 0,
          total_discounts |-> 0, net_revenue |-> 0, total_cogs |-> 0,
          total_packaging |-> 0, total_contribution |-> 0,
          avg_contribution_margin |-> ZeroFloat, missing_costs_count |-> 0]
    ELSE [total_orders |-> Len(ms),
          total_units |-> SumField(ms, "total_units"),
          gross_item_value |-> SumField(ms, "gross_item_value"),
          total_discounts |-> SumField(ms, "total_discounts"),
          net_revenue |-> SumField(ms, "net_revenue"),
          total_cogs |-> SumField(ms, "cogs"),
          total_packaging |-> SumField(ms, "packaging_total"),
          total_contribution |-> SumField(ms, "gross_profit"),
          avg_contribution_margin |->
              IF SumField(ms, "net_revenue") > 0
              THEN Fin(SumField(ms, "gross_profit") * 100,
                       SumField(ms, "net_revenue"))
              ELSE ZeroFloat,
          missing_costs_count |-> SumField(ms, "missing_cost_count")]
calculate_kpis(ms) ==
    IF ms = <<>>
    THEN [total_orders |-> 0, total_units |-> 0, gross_item_value |-> 0,
          total_discounts |-> 0, net_revenue |-> 0, total_cogs |-> 0,
          total_packaging |-> 0, total_contribution |-> 0,
          avg_contribution_margin |-> ZeroFloat, missing_costs_count |-> 0]
    ELSE [total_orders |-> Len(ms),
          total_units |-> SumField(ms, "total_units"),
          gross_item_value |-> SumField(ms, "gross_item_value"),
          total_discounts |-> SumField(ms, "total_discounts"),
          net_revenue |-> SumField(ms, "net_revenue"),
          total_cogs |-> SumField(ms, "cogs"),
          total_packaging |-> SumField(ms, "packaging_total"),
          total_contribution |-> SumField(ms, "contribution"),
          avg_contribution_margin |->
              IF SumField(ms, "net_revenue") > 0
              THEN Fin(SumField(ms, "contribution") * 100,
                       SumField(ms, "net_revenue"))
              ELSE ZeroFloat,
          missing_costs_count |-> SumField(ms, "missing_cost_count")]

\* app.calculate_d2c_period_metrics
calculate_d2c_period_metrics(ms) ==
    IF ms = <<>>
    THEN [revenue |-> 0, profit |-> 0, margin_pct |-> ZeroFloat, orders |-> 0,
          cogs |-> 0, discounts |-> 0]
    ELSE [revenue |-> SumField(ms, "net_revenue"),
          profit |-> SumField(ms, "contribution"),
          margin_pct |->
              IF SumField(ms, "net_revenue") > 0
              THEN Fin(SumField(ms, "contribution") * 100,
                       SumField(ms, "net_revenue"))
              ELSE ZeroFloat,
          orders |-> Len(ms),
          cogs |-> SumField(ms, "cogs"),
          discounts |-> SumField(ms, "total_discounts")]

\* metrics.create_weekly_summary: the groups of (week, weekday) and, per
\* group, the summed columns and the contribution margin
WeeklyGroups(ms) ==
    {<<ms[i].sent_out_week, ms[i].sent_out_weekday>> : i \in 1..Len(ms)}
create_weekly_summary(ms) ==
    [g \in WeeklyGroups(ms) |->
        LET rows == SelectSeq(ms, LAMBDA m :
                        <<m.sent_out_week, m.sent_out_weekday>> = g)
        IN  [orders |-> Len(rows),
             units |-> SumField(rows, "total_units"),
             net_revenue |-> SumField(rows, "net_revenue"),
             contribution |-> SumField(rows, "contribution"),
             contribution_margin_pct |->
                 fillna0(PandasPct(SumField(rows, "contribution"),
                                   SumField(rows, "net_revenue")))]]

(***************************************************************************)
(* Inputs                                                                  *)
(***************************************************************************)
MaxLw == 2           \* longest list of Linnworks records
MaxJoinOrders == 1   \* longest list of Shopify orders, join scenarios
MaxMoneyOrders == 2  \* longest list of Shopify orders, money scenarios

Lists(S, n) == UNION {[1..k -> S] : k \in 0..n}

\* reference numbers: empty, the order id 1 plain and as '#01 ' (a hash, a
\* leading zero and a trailing blank), an order name
RefNums == {<<>>, <<"1">>, <<"#", "0", "1", " ">>, <<"#", "7">>}
LwRecs == [ReferenceNum : RefNums, dProcessedOn : {RawNone, RawIso(7)},
           PostalServiceName : {"DPD"}, cFullName : {"Ann"}]
LwLists == Lists(LwRecs, MaxLw)

Variants == {1, 2}
CostValues == {NoCost, 400, 450}

Item(sku, variant_id, quantity, price, allocations) ==
    [sku |-> sku, variant_id |-> variant_id, quantity |-> quantity,
     price |-> price, discount_allocations |-> allocations]

\* the money fields of an order: line items and the order-level amounts
Basket(items, cur_sub, sub, cur_disc, disc) ==
    [line_items |-> items, current_subtotal_price |-> cur_sub,
     subtotal_price |-> sub, current_total_discounts |-> cur_disc,
     total_discounts |-> disc]
Baskets ==
    { Basket(<<Item("A", 1, 2, 1500, <<>>)>>, 3000, 3000, NoVal, NoVal),
      \* fully discounted order: net revenue 0
      Basket(<<Item("B", 2, 1, 1000, <<>>)>>, 0, 0, 1000, 1000),
      \* 11 units, no current_* fields
      Basket(<<Item("", 1, 11, 500, <<>>)>>, NoVal, 5500, NoVal, 500),
      \* 17 units over two lines, line-level allocations
      Basket(<<Item("A", 1, 10, 300, <<200>>), Item("A", 2, 7, 300, <<>>)>>,
             4900, 4900, 200, 200),
      \* discounts larger than the subtotal: negative net revenue
      Basket(<<Item("C", 0, 1, 1000, <<>>)>>, NoVal, 400, NoVal, 600),
      \* an order-level discount of 4.00 over two lines of 10.00 and 30.00
      Basket(<<Item("A", 1, 1, 1000, <<>>), Item("B", 2, 3, 1000, <<>>)>>,
             NoVal, 3600, NoVal, 400),
      \* no line items at all
      Basket(<<>>, NoVal, NoVal, NoVal, NoVal) }
DefaultBasket == Basket(<<Item("A", 1, 2, 1500, <<>>)>>, 3000, 3000, NoVal, NoVal)

MakeOrder(id, name, fulfillments, b) ==
    [id |-> id, name |-> name, created_at |-> RawIso(1),
     fulfillments |-> fulfillments] @@ b

JoinOrders ==
    {MakeOrder(id, <<"#", "7">>, f, DefaultBasket) :
        id \in {1, 2}, f \in {<<>>, <<RawBad>>, <<RawIso(10), RawIso(3)>>}}
\* dispatched orders with every basket, and one order not dispatched yet
MoneyOrders ==
    {MakeOrder(1, <<"#", "7">>, f, b) :
        f \in {<<RawIso(3)>>, <<RawIso(364)>>}, b \in Baskets}
    \cup {MakeOrder(2, <<"#", "8">>, <<>>, DefaultBasket)}

EmptyCostState ==
    [cache |-> EmptyDict, missing |-> {}, memo |-> EmptyDict,
     count |-> [v \in Variants |-> 0], first |-> EmptyDict,
     last |-> NoInfo]
CostState == [cache |-> cost_cache, missing |-> missing_costs,
              memo |-> fetch_memo, count |-> fetch_count,
              first |-> first_lookup, last |-> last_lookup]
SetCostState(cs) ==
    /\ cost_cache' = cs.cache
    /\ missing_costs' = cs.missing
    /\ fetch_memo' = cs.memo
    /\ fetch_count' = cs.count
    /\ first_lookup' = cs.first
    /\ last_lookup' = cs.last

HttpIdle ==
    [sh_pc |-> "idle", sh_total |-> 0, sh_url |-> 0, sh_attempt |-> 0,
     sh_status |-> 0, sh_items |-> <<>>,
     lw_pc |-> "idle", lw_total |-> 0, page_num |-> 0, lw_requests |-> 0,
     lw_status |-> 0, all_orders |-> <<>>]
NoKpis == [fn |-> "none"]
NoPack == [item_count |-> 0, out |-> NoInfo]

IdlePipe ==
    /\ pc = "start"
    /\ linnworks_orders = <<>>
    /\ dispatch_info = EmptyDict
    /\ orders = <<>>
    /\ idx = 0
    /\ results = <<>>
    /\ skipped = 0
    /\ progress = <<>>
    /\ kpis = NoKpis
IdleRefresh ==
    /\ last_data_refresh = NoDate
    /\ data_cache = NoInfo
    /\ proc_cache = NoInfo
    /\ refresh_log = NoInfo
    /\ served = NoInfo
IdleApp ==
    /\ win = NoInfo
    /\ filtered = NoInfo
    /\ last_data_refresh = NoDate
    /\ data_cache = NoInfo
    /\ proc_cache = NoInfo
    /\ refresh_log = NoInfo
    /\ served = NoInfo
IdleCost ==
    /\ cost_cache = EmptyDict
    /\ missing_costs = {}
    /\ fetch_memo = EmptyDict
    /\ now = 0
    /\ fetch_count = [v \in Variants |-> 0]
    /\ first_lookup = EmptyDict
    /\ last_lookup = NoInfo

(***************************************************************************)
(* The pipeline: fetch -> join -> process_orders -> aggregate              *)
(***************************************************************************)
Init ==
    /\ lwStore \in LwLists
    /\ shStore \in Lists(JoinOrders, MaxJoinOrders)
    /\ remote_cost = [v \in Variants |-> IF v = 1 THEN 400 ELSE NoCost]
    /\ IdlePipe
    /\ IdleCost
    /\ http = HttpIdle
    /\ IdleApp
    /\ pack = NoPack

InitMoney ==
    /\ lwStore = <<>>
    /\ shStore \in Lists(MoneyOrders, MaxMoneyOrders)
    /\ remote_cost = [v \in Variants |-> IF v = 1 THEN 400 ELSE NoCost]
    /\ IdlePipe
    /\ IdleCost
    /\ http = HttpIdle
    /\ IdleApp
    /\ pack = NoPack

\* fetch_linnworks_orders: the records of the period, as the API holds them
FetchLinnworks ==
    /\ pc = "start"
    /\ linnworks_orders' = lwStore
    /\ pc' = "lw_fetched"
    /\ UNCHANGED <<lwStore, shStore, dispatch_info, orders, idx, results,
                   skipped, progress, kpis, costVars, http, pack, appVars>>

GetDispatchInfo ==
    /\ pc = "lw_fetched"
    /\ dispatch_info' = get_dispatch_info(linnworks_orders)
    /\ pc' = "joined"
    /\ UNCHANGED <<lwStore, shStore, linnworks_orders, orders, idx, results,
                   skipped, progress, kpis, costVars, http, pack, appVars>>

\* fetch_shopify_orders / fetch_shopify_orders_by_ids
FetchShopify ==
    /\ pc = "joined"
    /\ orders' = shStore
    /\ pc' = "fetched"
    /\ UNCHANGED <<lwStore, shStore, linnworks_orders, dispatch_info, idx,
                   results, skipped, progress, kpis, costVars, http, pack, appVars>>

\* process_orders, lines 469-471
ProcessOrdersBegin ==
    /\ pc = "fetched"
    /\ results' = <<>>
    /\ skipped' = 0
    /\ idx' = 0
    /\ progress' = <<>>
    /\ pc' = "loop"
    /\ UNCHANGED <<lwStore, shStore, linnworks_orders, dispatch_info, orders,
                   kpis, costVars, http, pack, appVars>>

\* process_orders, lines 476-482: r is what process_order returned
ProcessOrdersCollect(r, res, skp) ==
    /\ results' = res
    /\ skipped' = skp
    /\ progress' = Append(progress, <<idx + 1, Len(orders), Len(res), skp>>)
    /\ SetCostState(r.cs)
ProcessOrdersResultUncounted(r) ==
    ProcessOrdersCollect(r,
        IF r.metrics # NoMetrics THEN Append(results, r.metrics) ELSE results,
        skipped)
ProcessOrdersResult(r) ==
    ProcessOrdersCollect(r,
        IF r.metrics # NoMetrics THEN Append(results, r.metrics) ELSE results,
        IF r.metrics # NoMetrics THEN skipped ELSE skipped + 1)

\* process_orders, one iteration of the loop (lines 473-482)
ProcessOrdersStepMutating ==
    /\ pc = "loop"
    /\ idx < Len(orders)
    /\ ProcessOrdersResult(process_order(orders[idx + 1], CostState,
                                         dispatch_info, now, remote_cost))
    /\ orders' = [orders EXCEPT ![idx + 1].fulfillments = <<>>]
    /\ idx' = idx + 1
    /\ UNCHANGED <<lwStore, shStore, pc, linnworks_orders, dispatch_info,
                   kpis, remote_cost, now, http, pack, appVars>>
ProcessOrdersStep ==
    /\ pc = "loop"
    /\ idx < Len(orders)
    /\ ProcessOrdersResult(process_order(orders[idx + 1], CostState,
                                         dispatch_info, now, remote_cost))
    /\ idx' = idx + 1
    /\ UNCHANGED <<lwStore, shStore, pc, linnworks_orders, dispatch_info,
                   orders, kpis, remote_cost, now, http, pack, appVars>>

\* process_orders, line 484
ProcessOrdersReturn ==
    /\ pc = "loop"
    /\ idx = Len(orders)
    /\ pc' = "returned"
    /\ UNCHANGED <<lwStore, shStore, linnworks_orders, dispatch_info, orders,
                   idx, results, skipped, progress, kpis, costVars, http, pack, appVars>>

CalculateKpis ==
    /\ pc = "returned"
    /\ kpis' = [fn |-> "calculate_kpis", out |-> calculate_kpis(results)]
    /\ UNCHANGED <<lwStore, shStore, pc, linnworks_orders, dispatch_info,
                   orders, idx, results, skipped, progress, costVars, http, pack, appVars>>

CalculatePeriodMetrics ==
    /\ pc = "returned"
    /\ kpis' = [fn |-> "calculate_d2c_period_metrics",
                out |-> calculate_d2c_period_metrics(results)]
    /\ UNCHANGED <<lwStore, shStore, pc, linnworks_orders, dispatch_info,
                   orders, idx, results, skipped, progress, costVars, http, pack, appVars>>

CreateWeeklySummary ==
    /\ pc = "returned"
    /\ kpis' = [fn |-> "create_weekly_summary",
                out |-> create_weekly_summary(results)]
    /\ UNCHANGED <<lwStore, shStore, pc, linnworks_orders, dispatch_info,
                   orders, idx, results, skipped, progress, costVars, http, pack, appVars>>

Next ==
    \/ FetchLinnworks
    \/ GetDispatchInfo
    \/ FetchShopify
    \/ ProcessOrdersBegin
    \/ ProcessOrdersStep
    \/ ProcessOrdersReturn
    \/ CalculateKpis
    \/ CalculatePeriodMetrics
    \/ CreateWeeklySummary

Spec == Init /\ [][Next]_vars
SpecMoney == InitMoney /\ [][Next]_vars

(***************************************************************************)
(* Properties of the pipeline                                              *)
(***************************************************************************)
\* the OrderMetrics process_orders obtained for the i-th order, read from
\* the progress log: order i was sent iff len(results) grew at call i
SentBefore(i) == IF i = 1 THEN 0 ELSE progress[i - 1][3]
MetricsOf(i) ==
    IF progress[i][3] > SentBefore(i) THEN results[progress[i][3]]
    ELSE NoMetrics
Handled == 1..idx

\* the Linnworks records filed under any of the four keys process_order tries
DatedCandidates(order, d) ==
    {c \in {Get(d, IntKey(order.id)), Get(d, StrKey(Str(order.id))),
            Get(d, StrKey(CleanRef(order.name))), Get(d, StrKey(order.name))} :
        Found(c) /\ c.processed_date # NoDate}
FulfillmentDates(order) ==
    {parse_datetime(order.fulfillments[i]) :
        i \in 1..Len(order.fulfillments)} \ {NoDate}

\* C1: whenever dispatch_info holds a record with a processed_date under the
\* order's id (int or str) or name (with or without '#'), sent_out_at is a
\* Linnworks processed_date; the earliest fulfillment date is used only when
\* there is no such record; the order's created_at is never the sent_out_at.
C1_LinnworksDateWheneverAvailable ==
    \A i \in Handled :
        LET order == orders[i]
            m == MetricsOf(i)
            dated == DatedCandidates(order, dispatch_info)
        IN  /\ dated # {} =>
                /\ m # NoMetrics
                /\ m.sent_out_at \in {c.processed_date : c \in dated}
            /\ (dated = {} /\ m # NoMetrics) =>
                m.sent_out_at = Min(FulfillmentDates(order))
            /\ m # NoMetrics => m.sent_out_at # parse_datetime(order.created_at)

LastWithNumber(recs, n) ==
    LET hits == SelectSeq(recs, LAMBDA r :
                    /\ r.ReferenceNum # <<>>
                    /\ IsNumeric(CleanRef(r.ReferenceNum))
                    /\ ToInt(CleanRef(r.ReferenceNum)) = n)
    IN  hits[Len(hits)]
C4_ContributionMargin ==
    \A i \in 1..Len(results) :
        LET m == results[i]
        IN  m.net_revenue > 0 =>
            /\ m.contribution = m.net_revenue - m.cogs - m.packaging_total
            /\ m.contribution_margin_pct.kind = "fin"
            /\ m.contribution_margin_pct.num * m.net_revenue =
                   (m.net_revenue - m.cogs - m.packaging_total) * 100
                   * m.contribution_margin_pct.den
            /\ m.gross_profit = m.net_revenue - m.cogs
C4_Witness ==
    \E i \in 1..Len(results) :
        /\ results[i].net_revenue > 0
        /\ results[i].cogs > 0
        /\ results[i].packaging_total > 0
        /\ results[i].contribution < results[i].gross_profit

\* C5: every margin percentage is 0 whenever the net revenue it divides by
\* is not positive: per order, in calculate_kpis, in
\* calculate_d2c_period_metrics and in create_weekly_summary.
C5_NoDivisionByZeroRevenue ==
    /\ \A i \in 1..Len(results) :
        results[i].net_revenue <= 0 =>
            /\ IsZero(results[i].gross_margin_pct)
            /\ IsZero(results[i].contribution_margin_pct)
    /\ (kpis.fn = "calculate_kpis" /\ kpis.out.net_revenue <= 0) =>
            IsZero(kpis.out.avg_contribution_margin)
    /\ (kpis.fn = "calculate_d2c_period_metrics" /\ kpis.out.revenue <= 0) =>
            IsZero(kpis.out.margin_pct)
    /\ kpis.fn = "create_weekly_summary" =>
            \A g \in DOMAIN kpis.out :
                kpis.out[g].net_revenue <= 0 =>
                    IsZero(kpis.out[g].contribution_margin_pct)

\* C9: no step writes to the two source systems, and once fetched or built,
\* the Linnworks records, the dispatch_info mapping and the Shopify orders
\* are left as they are; processing changes the cost caches only.
C9_NoWritesNoInputChange ==
    [][/\ lwStore' = lwStore
       /\ shStore' = shStore
       /\ remote_cost' = remote_cost
       /\ pc # "start" => linnworks_orders' = linnworks_orders
       /\ pc \notin {"start", "lw_fetched"} => dispatch_info' = dispatch_info
       /\ pc \notin {"start", "lw_fetched", "joined"} => orders' = orders]_vars
C9_Witness ==
    /\ pc = "returned"
    /\ Len(results) = 1
    /\ cost_cache # EmptyDict
    /\ orders = shStore
    /\ linnworks_orders = lwStore
    /\ Len(lwStore) = 2
    /\ dispatch_info = get_dispatch_info(lwStore)

\* C11: the packaging tier of a processed order (box type, multiplier and
\* packaging total) is the tier of its SKU count, the number of distinct
\* SKUs among its line items.
C11_PackagingTierFromSkuCount ==
    \A i \in 1..Len(results) :
        /\ results[i].box_type = determine_box_type(results[i].sku_count)[1]
        /\ results[i].box_multiplier =
               determine_box_type(results[i].sku_count)[2]
        /\ results[i].packaging_total =
               calculate_packaging_cost(results[i].sku_count).total

\* C12: for every processed order, net_revenue = gross_item_value -
\* total_discounts, whichever subtotal and discount fields the order carries.
C12_RevenueIsGrossMinusDiscounts ==
    \A i \in 1..Len(results) :
        results[i].net_revenue =
            results[i].gross_item_value - results[i].total_discounts

\* the sum of a list of float quotients
RECURSIVE Gcd(_, _)
Gcd(a, b) == IF b = 0 THEN a ELSE Gcd(b, a % b)
\* a quotient in lowest terms (d > 0)
Lowest(n, d) == Fin(n \div Gcd(n, d), d \div Gcd(n, d))
FAdd(a, b) ==
    Lowest(a.num * b.den + b.num * a.den, a.den * b.den)
RECURSIVE FSum(_)
FSum(s) ==
    IF s = <<>> THEN ZeroFloat
    ELSE FAdd(Lowest(s[1].num, s[1].den), FSum(Tail(s)))
FEq(f, n, d) == f.kind = "fin" /\ Lowest(f.num, f.den) = Lowest(n, d)

HasAllocations(order) ==
    \E j \in 1..Len(order.line_items) :
        order.line_items[j].discount_allocations # <<>>
LineDiscounts(m) ==
    [j \in 1..Len(m.line_items) |-> m.line_items[j].line_discount]

\* C17: every line of a processed order has a discount.  If any line carries
\* discount_allocations, each line's discount is the sum of its own
\* allocations (0 without any).  Otherwise, when the total gross and the
\* order discount are both positive, line j gets
\* order_discount * gross_j / total_gross and the line discounts sum to the
\* order discount; when either is not positive every line gets 0.
C17_LineItemDiscounts ==
    \A i \in Handled :
        MetricsOf(i) # NoMetrics =>
            /\ DOMAIN LineDiscounts(MetricsOf(i)) = DOMAIN orders[i].line_items
            /\ HasAllocations(orders[i]) =>
                \A j \in DOMAIN orders[i].line_items :
                    FEq(LineDiscounts(MetricsOf(i))[j],
                        SumSeq(orders[i].line_items[j].discount_allocations), 1)
            /\ (~HasAllocations(orders[i])
                    /\ GrossItemValue(orders[i].line_items) > 0
                    /\ OrderDiscount(orders[i]) > 0) =>
                /\ \A j \in DOMAIN orders[i].line_items :
                    FEq(LineDiscounts(MetricsOf(i))[j],
                        OrderDiscount(orders[i])
                            * orders[i].line_items[j].price
                            * orders[i].line_items[j].quantity,
                        GrossItemValue(orders[i].line_items))
                /\ FEq(FSum(LineDiscounts(MetricsOf(i))),
                       OrderDiscount(orders[i]), 1)
            /\ (~HasAllocations(orders[i])
                    /\ (GrossItemValue(orders[i].line_items) <= 0
                        \/ OrderDiscount(orders[i]) <= 0)) =>
                \A j \in DOMAIN orders[i].line_items :
                    IsZero(LineDiscounts(MetricsOf(i))[j])
C17_Witness ==
    /\ Len(results) = 2
    /\ HasAllocations(orders[1])
    /\ OrderDiscount(orders[1]) > 0
    /\ Len(results[1].line_items) = 2
    /\ results[1].line_items[1].line_discount = Fin(200, 1)
    /\ IsZero(results[1].line_items[2].line_discount)
    /\ ~HasAllocations(orders[2])
    /\ OrderDiscount(orders[2]) = 400
    /\ Len(results[2].line_items) = 2
    /\ results[2].line_items[1].line_discount = Fin(400000, 4000)
    /\ results[2].line_items[2].line_discount = Fin(1200000, 4000)

\* the orders among the first n that have a dispatch date, in input order
RECURSIVE DispatchedAmong(_)
DispatchedAmong(n) ==
    IF n = 0 THEN <<>>
    ELSE IF SentOutAt(orders[n], dispatch_info) = NoDate
    THEN DispatchedAmong(n - 1)
    ELSE Append(DispatchedAmong(n - 1), orders[n])

\* C18: while process_orders runs and when it returns, len(results) + skipped
\* is the number of orders handled, results holds the metrics of the
\* dispatched orders in input order, progress_callback has been called once
\* per handled order with current = 1, 2, ... and total = len(orders), and at
\* return every order has been handled.
C18_EveryOrderAccountedOnce ==
    pc \in {"loop", "returned"} =>
        /\ Len(results) + skipped = idx
        /\ Len(results) = Len(DispatchedAmong(idx))
        /\ \A k \in 1..Len(results) :
            /\ results[k].order_id = DispatchedAmong(idx)[k].id
            /\ results[k].order_name = DispatchedAmong(idx)[k].name
            /\ results[k].gross_item_value =
                   GrossItemValue(DispatchedAmong(idx)[k].line_items)
            /\ results[k].sent_out_at =
                   SentOutAt(DispatchedAmong(idx)[k], dispatch_info)
        /\ Len(progress) = idx
        /\ \A k \in 1..Len(progress) :
            /\ progress[k][1] = k
            /\ progress[k][2] = Len(orders)
            /\ progress[k][3] + progress[k][4] = k
        /\ pc = "returned" =>
            /\ idx = Len(orders)
            /\ idx > 0 => /\ progress[idx][3] = Len(results)
                          /\ progress[idx][4] = skipped
C18_Witness ==
    /\ pc = "returned"
    /\ Len(orders) = 2
    /\ orders[1].fulfillments = <<>>
    /\ skipped = 1
    /\ Len(results) = 1
    /\ results[1].order_id = orders[2].id
    /\ progress = <<<<1, 2, 0, 1>>, <<2, 2, 1, 1>>>>

\* the sum of field f over the first n processed orders
RECURSIVE Total(_, _)
Total(f, n) == IF n = 0 THEN 0 ELSE Total(f, n - 1) + results[n][f]

\* C20: calculate_kpis over the processed orders returns their number and,
\* for every total, the sum of the per-order field, so that
\* total_contribution = net_revenue - total_cogs - total_packaging;
\* avg_contribution_margin is total_contribution / net_revenue * 100 when
\* net_revenue > 0; for the empty list every KPI is 0.
C20_KpisArePlainAggregates ==
    kpis.fn = "calculate_kpis" =>
        /\ kpis.out.total_orders = Len(results)
        /\ kpis.out.total_units = Total("total_units", Len(results))
        /\ kpis.out.gross_item_value =
               Total("gross_item_value", Len(results))
        /\ kpis.out.total_discounts = Total("total_discounts", Len(results))
        /\ kpis.out.net_revenue = Total("net_revenue", Len(results))
        /\ kpis.out.total_cogs = Total("cogs", Len(results))
        /\ kpis.out.total_packaging = Total("packaging_total", Len(results))
        /\ kpis.out.total_contribution = Total("contribution", Len(results))
        /\ kpis.out.missing_costs_count =
               Total("missing_cost_count", Len(results))
        /\ kpis.out.total_contribution =
               kpis.out.net_revenue - kpis.out.total_cogs
                   - kpis.out.total_packaging
        /\ kpis.out.net_revenue > 0 =>
               FEq(kpis.out.avg_contribution_margin,
                   kpis.out.total_contribution * 100, kpis.out.net_revenue)
        /\ results = <<>> =>
               /\ \A k \in DOMAIN kpis.out \ {"avg_contribution_margin"} :
                      kpis.out[k] = 0
               /\ IsZero(kpis.out.avg_contribution_margin)
C20_Witness ==
    /\ kpis.fn = "calculate_kpis"
    /\ Len(results) = 2
    /\ results[1].net_revenue # results[2].net_revenue
    /\ results[1].cogs > 0
    /\ results[2].missing_cost_count > 0
    /\ kpis.out.total_packaging > results[1].packaging_total
    /\ kpis.out.net_revenue = results[1].net_revenue + results[2].net_revenue
    /\ kpis.out.total_contribution < kpis.out.net_revenue - kpis.out.total_cogs
    /\ ~IsZero(kpis.out.avg_contribution_margin)

(***************************************************************************)
(* The cost cache over time, within and across browser sessions            *)
(***************************************************************************)
MaxTime == 7200    \* the clock stops here
TickStep == 1800   \* seconds per clock step

InitCost ==
    /\ lwStore = <<>>
    /\ shStore = <<>>
    /\ remote_cost \in [Variants -> CostValues]
    /\ IdlePipe
    /\ IdleCost
    /\ http = HttpIdle
    /\ IdleApp
    /\ pack = NoPack

\* a call of CostingService.get_variant_cost
GetVariantCost ==
    \E variant_id \in Variants \cup {0} :
        /\ SetCostState(get_variant_cost(CostState, variant_id, now,
                                         remote_cost).cs)
        /\ UNCHANGED <<pipeVars, remote_cost, now, http, pack, appVars>>

\* CostingService.clear_cache: CostCache.clear and _fetch_variant_cost.clear
ClearCache ==
    /\ SetCostState(EmptyCostState)
    /\ UNCHANGED <<pipeVars, remote_cost, now, http, pack, appVars>>

\* CostCache.__init__ in a new browser session: st.session_state starts
\* empty, the st.cache_data store is shared by all sessions of the server.
\* The history restarts with the session.
NewSession ==
    /\ cost_cache # EmptyDict
    /\ SetCostState([EmptyCostState EXCEPT !.memo = fetch_memo])
    /\ UNCHANGED <<pipeVars, remote_cost, now, http, pack, appVars>>

\* time passes
Tick ==
    /\ now < MaxTime
    /\ now' = now + TickStep
    /\ UNCHANGED <<pipeVars, remote_cost, cost_cache, missing_costs,
                   fetch_memo, fetch_count, first_lookup, last_lookup, http,
                   pack, appVars>>

\* the merchant edits a variant's cost in Shopify
RemoteCostChange ==
    \E v \in Variants, c \in CostValues :
        /\ c # remote_cost[v]
        /\ remote_cost' = [remote_cost EXCEPT ![v] = c]
        /\ UNCHANGED <<pipeVars, cost_cache, missing_costs, fetch_memo, now,
                       fetch_count, first_lookup, last_lookup, http, pack, appVars>>

NextCost ==
    \/ GetVariantCost
    \/ ClearCache
    \/ NewSession
    \/ Tick
    \/ RemoteCostChange

SpecCost == InitCost /\ [][NextCost]_vars

C7_NeverOlderThanOneHour ==
    last_lookup # NoInfo => last_lookup.called - last_lookup.at <= TTL

\* C7 as amended: a cost that get_variant_cost takes from _fetch_variant_cost
\* (a miss of the session cache) is younger than one hour, and is fetched at
\* the time of the call unless the st.cache_data entry is younger than that.
C7_FetchLayerExpires ==
    (last_lookup # NoInfo /\ ~last_lookup.is_cached) =>
        /\ last_lookup.called - last_lookup.at < TTL
        /\ fetch_memo[last_lookup.variant_id].at = last_lookup.at
\* a new session is served a cost half an hour old by st.cache_data, and
\* the clock has passed the hour since
C7_Witness ==
    /\ last_lookup # NoInfo
    /\ ~last_lookup.is_cached
    /\ last_lookup.called - last_lookup.at = TickStep
    /\ fetch_count[last_lookup.variant_id] = 0
    /\ now - last_lookup.at > TTL

(***************************************************************************)
(* The request loops of the two API clients                                *)
(* The server holds sh_total (lw_total) pages; page p carries the item p.  *)
(* Each request is answered 200, 429 or with another error status.         *)
(***************************************************************************)
MaxPages == 2    \* most pages a server holds

\* ShopifyClient._get_with_rate_limit, line 65
max_retries_short == 5 - 2
max_retries == 5

ShopifyStatuses == {200, 429, 404}
LinnworksStatuses == {200, 429, 500}

InitHttp ==
    /\ lwStore = <<>>
    /\ shStore = <<>>
    /\ remote_cost = [v \in Variants |-> NoCost]
    /\ IdlePipe
    /\ IdleCost
    /\ http = HttpIdle
    /\ IdleApp
    /\ pack = NoPack

\* ShopifyClient._paginate is entered: the first url, attempt 0
ShopifyPaginate ==
    /\ http.sh_pc = "idle"
    /\ \E n \in 1..MaxPages :
        http' = [http EXCEPT !.sh_pc = "get", !.sh_total = n, !.sh_url = 1,
                             !.sh_attempt = 0, !.sh_status = 0,
                             !.sh_items = <<>>]
    /\ UNCHANGED <<pipeVars, costVars, pack, appVars>>

\* one session.get of _get_with_rate_limit and what follows its answer:
\*   429: _handle_rate_limit sleeps, then the loop continues or, after
\*        max_retries attempts, returns the 429 response, on which
\*        _paginate's raise_for_status raises;
\*   200: the page's items are yielded and the Link header gives the next url;
\*   else: raise_for_status raises.
ShopifyGet ==
    /\ http.sh_pc = "get"
    /\ \E status \in ShopifyStatuses :
        http' =
            IF status = 429
            THEN IF http.sh_attempt + 1 < max_retries
                 THEN [http EXCEPT !.sh_attempt = @ + 1, !.sh_status = 429]
                 ELSE [http EXCEPT !.sh_attempt = @ + 1, !.sh_status = 429,
                                   !.sh_pc = "raised"]
            ELSE IF status = 200
            THEN IF http.sh_url < http.sh_total
                 THEN [http EXCEPT !.sh_items = Append(@, http.sh_url),
                                   !.sh_url = @ + 1, !.sh_attempt = 0,
                                   !.sh_status = 200]
                 ELSE [http EXCEPT !.sh_items = Append(@, http.sh_url),
                                   !.sh_status = 200, !.sh_pc = "done"]
            ELSE [http EXCEPT !.sh_status = status, !.sh_pc = "raised"]
    /\ UNCHANGED <<pipeVars, costVars, pack, appVars>>

\* LinnworksClient.get_processed_orders up to the loop: authenticate, page 1
LinnworksGetProcessedOrders ==
    /\ http.lw_pc = "idle"
    /\ \E authenticated \in BOOLEAN, n \in 0..MaxPages :
        http' = IF authenticated
                THEN [http EXCEPT !.lw_pc = "post", !.lw_total = n,
                                  !.page_num = 1, !.all_orders = <<>>]
                ELSE [http EXCEPT !.lw_pc = "done", !.lw_total = n,
                                  !.all_orders = <<>>]
    /\ UNCHANGED <<pipeVars, costVars, pack, appVars>>

\* one iteration of the while loop, lines 75-114: a 200 answer extends
\* all_orders and moves to the next page unless TotalEntries is reached or
\* the page is empty; any other answer breaks out of the loop
LinnworksPost ==
    /\ http.lw_pc = "post"
    /\ \E status \in LinnworksStatuses :
        http' =
            IF status = 200
            THEN IF http.page_num > http.lw_total
                 THEN [http EXCEPT !.lw_requests = @ + 1, !.lw_status = 200,
                                   !.lw_pc = "done"]
                 ELSE IF Len(http.all_orders) + 1 >= http.lw_total
                 THEN [http EXCEPT !.lw_requests = @ + 1, !.lw_status = 200,
                                   !.all_orders = Append(@, http.page_num),
                                   !.lw_pc = "done"]
                 ELSE [http EXCEPT !.lw_requests = @ + 1, !.lw_status = 200,
                                   !.all_orders = Append(@, http.page_num),
                                   !.page_num = @ + 1]
            ELSE [http EXCEPT !.lw_requests = @ + 1, !.lw_status = status,
                              !.lw_pc = "done"]
    /\ UNCHANGED <<pipeVars, costVars, pack, appVars>>

NextHttp ==
    \/ ShopifyPaginate
    \/ ShopifyGet
    \/ LinnworksGetProcessedOrders
    \/ LinnworksPost

SpecHttp == InitHttp /\ [][NextHttp]_vars

\* C8 as stated: neither client abandons a fetch, or returns a truncated
\* result, because a request was answered 429.
C8_RateLimitAlwaysRetried ==
    /\ http.sh_pc = "raised" => http.sh_status # 429
    /\ http.lw_pc = "done" => http.lw_status # 429

\* C8 as amended: the Shopify client retries a request answered 429 (same
\* url, one more attempt) and gives up only after five attempts; the
\* Linnworks client never repeats a request: an answer 429 ends the fetch
\* with the pages collected before it.
C8_ShopifyRetriesFiveTimes ==
    /\ (http.sh_pc = "get" /\ http.sh_status = 429) =>
           /\ http.sh_attempt \in 1..4
           /\ http.sh_url = Len(http.sh_items) + 1
    /\ (http.sh_pc = "raised" /\ http.sh_status = 429) => http.sh_attempt = 5
    /\ http.lw_pc = "post" => http.lw_requests = http.page_num - 1
    /\ (http.lw_pc = "done" /\ http.lw_status = 429) =>
           /\ http.lw_requests = http.page_num
           /\ http.all_orders = [i \in 1..(http.page_num - 1) |-> i]
C8_Witness ==
    /\ http.sh_pc = "raised"
    /\ http.sh_status = 429
    /\ http.sh_attempt = 5
    /\ Len(http.sh_items) = 1
    /\ http.lw_pc = "done"
    /\ http.lw_status = 429
    /\ http.lw_total = 2
    /\ http.all_orders = <<1>>

(***************************************************************************)
(* Packaging cost as a function of the item count                          *)
(***************************************************************************)
MaxItemCount == 60   \* largest item count tried

InitPack ==
    /\ lwStore = <<>>
    /\ shStore = <<>>
    /\ remote_cost = [v \in Variants |-> NoCost]
    /\ IdlePipe
    /\ IdleCost
    /\ http = HttpIdle
    /\ IdleApp
    /\ pack \in {[item_count |-> n, out |-> NoInfo] : n \in 0..MaxItemCount}

CalculatePackagingCost ==
    /\ pack.out = NoInfo
    /\ pack' = [pack EXCEPT !.out = calculate_packaging_cost(pack.item_count)]
    /\ UNCHANGED <<pipeVars, costVars, http, appVars>>

NextPack == CalculatePackagingCost

SpecPack == InitPack /\ [][NextPack]_vars

\* C10: a count below 10 costs one small box (12.66), a count from 10 to 16
\* one large box (13.81), a count above 16 two large boxes (27.62); the total
\* is the multiplier times the sum of the box type's cost components.
C10_PackagingTiersAsDisplayed ==
    pack.out # NoInfo =>
        /\ pack.item_count < 10 =>
            /\ pack.out.box_type = "small"
            /\ pack.out.multiplier = 1
            /\ pack.out.total = 1266
        /\ (pack.item_count >= 10 /\ pack.item_count <= 16) =>
            /\ pack.out.box_type = "large"
            /\ pack.out.multiplier = 1
            /\ pack.out.total = 1381
        /\ pack.item_count > 16 =>
            /\ pack.out.box_type = "large"
            /\ pack.out.multiplier = 2
            /\ pack.out.total = 2762
        /\ pack.out.total =
               pack.out.multiplier
               * SumComponents(PACKAGING_COSTS[pack.out.box_type])

(***************************************************************************)
(* app.py: the comparison windows of the retail and the D2C dashboard      *)
(* Here a datetime is a record [year, month, day, tod], tod being the      *)
(* seconds since midnight (hour, minute, second and microsecond together). *)
(***************************************************************************)
Dt(y, m, d, t) == [year |-> y, month |-> m, day |-> d, tod |-> t]
\* the order of datetimes, as an integer that grows with (year, month, day,
\* tod); years are counted from 2000
Stamp(dt) ==
    (((dt.year - 2000) * 12 + dt.month) * 31 + dt.day) * 86400 + dt.tod

IsLeap(y) == (y % 4 = 0 /\ y % 100 # 0) \/ y % 400 = 0
\* calendar.monthrange(y, m)[1]
monthrange(y, m) ==
    IF m = 2 THEN (IF IsLeap(y) THEN 29 ELSE 28)
    ELSE IF m \in {4, 6, 9, 11} THEN 30 ELSE 31

\* datetime.replace raises ValueError for a day the month does not have
ValueError == [error |-> "ValueError"]
Replace(y, m, d, t) == IF d > monthrange(y, m) THEN ValueError ELSE Dt(y, m, d, t)

\* lines 526-527 and 1040-1041
current_month_start(today) == Replace(today.year, today.month, 1, 0)
current_year_start(today) == Replace(today.year, 1, 1, 0)

\* retail, lines 530-531 and 534: replace() keeps today's time of day
retail_last_month_start(today) ==
    IF today.month = 1 THEN Replace(today.year - 1, 12, 1, today.tod)
    ELSE Replace(today.year, today.month - 1, 1, today.tod)
\* D2C, lines 1044-1045 and 1047: the time of day is reset to midnight
d2c_last_month_start(today) ==
    IF today.month = 1 THEN Replace(today.year - 1, 12, 1, 0)
    ELSE Replace(today.year, today.month - 1, 1, 0)

\* lines 532, 536-538 and 1046, 1048-1049
last_month_same_day(today) ==
    IF today.month = 1
    THEN Replace(today.year - 1, 12, Min({today.day, 31}), today.tod)
    ELSE Replace(today.year, today.month - 1,
                 Min({today.day, monthrange(today.year, today.month - 1)}),
                 today.tod)

\* lines 541 and 1052
last_year_month_start(today) == Replace(today.year - 1, today.month, 1, 0)
\* lines 543-547 and 1053-1056: try / except ValueError
last_year_same_day_capped(today) ==
    Replace(today.year - 1, today.month, Min({today.day, 28}), today.tod)
last_year_same_day(today) ==
    IF Replace(today.year - 1, today.month, today.day, today.tod) # ValueError
    THEN Replace(today.year - 1, today.month, today.day, today.tod)
    ELSE Replace(today.year - 1, today.month, 28, today.tod)
\* lines 559 and 1059
last_year_ytd_start(today) == Replace(today.year - 1, 1, 1, 0)

\* the pandas filter (Date >= lo) & (Date <= hi), lines 550-564
Between(df, lo, hi) ==
    {o \in df : Stamp(o) >= Stamp(lo) /\ Stamp(o) <= Stamp(hi)}

\* LinnworksClient.get_processed_orders: the request names whole days,
\* from 00:00:00 of from_date to 23:59:59 of to_date
SearchProcessedOrders(all, from_date, to_date) ==
    Between(all, Dt(from_date.year, from_date.month, from_date.day, 0),
            Dt(to_date.year, to_date.month, to_date.day, 86399))

\* the days today is drawn from, and the dates orders carry
TodayYears == {2024, 2025}
TodayDays == {1, 15, 28, 29, 30, 31}
TimesOfDay == {0, 43200}
OrderYears == {2023, 2024, 2025}
OrderDays == {1, 2, 14, 15, 16, 27, 28, 29, 30, 31}
Todays ==
    {Replace(y, m, d, t) :
        y \in TodayYears, m \in 1..12, d \in TodayDays, t \in TimesOfDay}
    \ {ValueError}
\* retail: 'processed' is ProcessedDateTime[:10], a date, read as midnight
RetailOrderDates ==
    {Replace(y, m, d, 0) : y \in OrderYears, m \in 1..12, d \in OrderDays}
    \ {ValueError}
\* Linnworks: processed datetimes, at the start and the end of a day
ProcessedDatetimes ==
    {Replace(y, m, d, t) :
        y \in OrderYears, m \in 1..12, d \in OrderDays, t \in {0, 86399}}
    \ {ValueError}

\* render_retail_dashboard, lines 525-564
RetailWindows(today, df_all) ==
    [dashboard |-> "retail", today |-> today,
     last_month_start |-> retail_last_month_start(today),
     last_month_same_day |-> last_month_same_day(today),
     last_year_month_start |-> last_year_month_start(today),
     last_year_same_day |-> last_year_same_day(today),
     last_year_ytd_start |-> last_year_ytd_start(today),
     last_year_ytd_end |-> last_year_same_day(today),
     mtd |-> Between(df_all, current_month_start(today), today),
     ytd |-> Between(df_all, current_year_start(today), today),
     last_month |-> Between(df_all, retail_last_month_start(today),
                            last_month_same_day(today)),
     lfl |-> Between(df_all, last_year_month_start(today),
                     last_year_same_day(today)),
     ytd_lfl |-> Between(df_all, last_year_ytd_start(today),
                         last_year_same_day(today))]

\* render_d2c_dashboard, lines 1039-1084
D2CWindows(today, all) ==
    [dashboard |-> "d2c", today |-> today,
     last_month_start |-> d2c_last_month_start(today),
     last_month_same_day |-> last_month_same_day(today),
     last_year_month_start |-> last_year_month_start(today),
     last_year_same_day |-> last_year_same_day(today),
     last_year_ytd_start |-> last_year_ytd_start(today),
     last_year_ytd_end |-> last_year_same_day(today),
     mtd |-> SearchProcessedOrders(all, current_month_start(today), today),
     ytd |-> SearchProcessedOrders(all, current_year_start(today), today),
     last_month |-> SearchProcessedOrders(all, d2c_last_month_start(today),
                                          last_month_same_day(today)),
     lfl |-> SearchProcessedOrders(all, last_year_month_start(today),
                                   last_year_same_day(today)),
     ytd_lfl |-> SearchProcessedOrders(all, last_year_ytd_start(today),
                                       last_year_same_day(today))]

InitWindows ==
    /\ lwStore = <<>>
    /\ shStore = <<>>
    /\ remote_cost = [v \in Variants |-> NoCost]
    /\ IdlePipe
    /\ IdleCost
    /\ http = HttpIdle
    /\ pack = NoPack
    /\ win \in {[dashboard |-> "none", today |-> today] : today \in Todays}
    /\ filtered = NoInfo
    /\ IdleRefresh

RenderRetailDashboard ==
    /\ win' = RetailWindows(win.today, RetailOrderDates)
    /\ UNCHANGED <<pipeVars, costVars, http, pack, filtered, refreshVars>>

RenderD2CDashboard ==
    /\ win' = D2CWindows(win.today, ProcessedDatetimes)
    /\ UNCHANGED <<pipeVars, costVars, http, pack, filtered, refreshVars>>

NextWindows ==
    \/ RenderRetailDashboard
    \/ RenderD2CDashboard

SpecWindows == InitWindows /\ [][NextWindows]_vars

(***************************************************************************)
(* Properties of the comparison windows                                    *)
(***************************************************************************)
\* the order dates the rendered dashboard filtered
WindowOrders == IF win.dashboard = "retail" THEN RetailOrderDates
                ELSE ProcessedDatetimes
\* the day the like-for-like windows end on
LflEndDay(today) ==
    IF today.month = 2 /\ today.day = 29 THEN 28 ELSE today.day
\* the previous calendar month
PrevMonthYear(today) == IF today.month = 1 THEN today.year - 1 ELSE today.year
PrevMonth(today) == IF today.month = 1 THEN 12 ELSE today.month - 1

\* C13: the month-to-date like-for-like window holds exactly the orders dated
\* from the 1st of the current month through the current day-of-month, both
\* in the previous year, and the year-to-date one those from 1 January
\* through the current month and day of the previous year; on 29 February
\* the end day is 28 February.
C13_LikeForLikeWindow ==
    win.dashboard # "none" =>
        /\ win.lfl =
            {o \in WindowOrders :
                /\ o.year = win.today.year - 1
                /\ o.month = win.today.month
                /\ o.day <= LflEndDay(win.today)}
        /\ win.ytd_lfl =
            {o \in WindowOrders :
                /\ o.year = win.today.year - 1
                /\ \/ o.month < win.today.month
                   \/ /\ o.month = win.today.month
                      /\ o.day <= LflEndDay(win.today)}
C13_Witness ==
    /\ win.dashboard = "d2c"
    /\ win.today = Dt(2024, 2, 29, 43200)
    /\ Dt(2023, 2, 28, 86399) \in win.lfl
    /\ Dt(2023, 1, 1, 0) \in win.ytd_lfl
    /\ Dt(2023, 3, 1, 0) \notin win.ytd_lfl

\* C14: in both dashboards the 'Last Month 1-N' window holds exactly the
\* orders dated from the 1st through day N of the previous calendar month,
\* N being today's day-of-month clamped to that month's length; in January
\* the previous month is December of the previous year.
C14_LastMonthWindow ==
    win.dashboard # "none" =>
        /\ win.last_month_same_day.day =
               Min({win.today.day,
                    monthrange(PrevMonthYear(win.today), PrevMonth(win.today))})
        /\ win.last_month =
            {o \in WindowOrders :
                /\ o.year = PrevMonthYear(win.today)
                /\ o.month = PrevMonth(win.today)
                /\ o.day <= win.last_month_same_day.day}

(***************************************************************************)
(* app.py: the daily refresh.  One browser session with a fixed date range *)
(* runs main over and over: check_daily_refresh first, then (unless the    *)
(* script is rerun) the D2C dashboard.  The clock `now` counts seconds,    *)
(* second 0 being midnight of the first day.                               *)
(***************************************************************************)
\* ttl of st.cache_data on fetch_linnworks_orders and
\* fetch_shopify_orders_by_ids, in seconds
FetchOrdersTTL == 300

\* the instants at which the session can run the script: around 08:00 of
\* two days
RefreshInstants ==
    {0, 25200, 28680, 28800, 28920, 32400, 115080, 115200, 115320}

\* now.replace(hour=8, minute=0, second=0, microsecond=0)
today_8am(t) == (t \div 86400) * 86400 + 28800

\* check_daily_refresh: the value returned, the last_data_refresh it leaves
\* and whether it cleared the caches
check_daily_refresh_unrecorded(t, last_refresh) ==
    IF last_refresh = NoDate
    THEN [returned |-> FALSE, last_data_refresh |-> t, cleared |-> FALSE]
    ELSE IF t >= today_8am(t) /\ last_refresh < today_8am(t)
    THEN [returned |-> TRUE, last_data_refresh |-> last_refresh,
          cleared |-> TRUE]
    ELSE [returned |-> FALSE, last_data_refresh |-> last_refresh,
          cleared |-> FALSE]
check_daily_refresh(t, last_refresh) ==
    IF last_refresh = NoDate
    THEN [returned |-> FALSE, last_data_refresh |-> t, cleared |-> FALSE]
    ELSE IF t >= today_8am(t) /\ last_refresh < today_8am(t)
    THEN [returned |-> TRUE, last_data_refresh |-> t, cleared |-> TRUE]
    ELSE [returned |-> FALSE, last_data_refresh |-> last_refresh,
          cleared |-> FALSE]

\* the log of check_daily_refresh before its first call
NoRefreshLog ==
    [pc |-> "idle", called |-> NoDate, last_refresh |-> NoDate,
     recorded |-> NoDate, returned |-> FALSE, prev_true |-> NoDate,
     last_true |-> NoDate]

InitRefresh ==
    /\ lwStore = <<>>
    /\ shStore = <<>>
    /\ remote_cost = [v \in Variants |-> 400]
    /\ IdlePipe
    /\ IdleCost
    /\ http = HttpIdle
    /\ pack = NoPack
    /\ win = NoInfo
    /\ filtered = NoInfo
    /\ last_data_refresh = NoDate
    /\ data_cache = NoInfo
    /\ proc_cache = NoInfo
    /\ refresh_log = NoRefreshLog
    /\ served = NoInfo

\* lines 1411-1419 and 1430-1433: st.cache_data.clear() empties the store of
\* every cached function, the proc_ keys of the session are deleted;
\* st.session_state.cost_cache is left alone
ApplyRefresh(r) ==
    /\ last_data_refresh' = r.last_data_refresh
    /\ data_cache' = IF r.cleared THEN NoInfo ELSE data_cache
    /\ fetch_memo' = IF r.cleared THEN EmptyDict ELSE fetch_memo
    /\ proc_cache' = IF r.cleared THEN NoInfo ELSE proc_cache
    /\ refresh_log' =
         [pc |-> IF r.returned THEN "rerun" ELSE "render",
          called |-> now, last_refresh |-> last_data_refresh,
          recorded |-> r.last_data_refresh, returned |-> r.returned,
          prev_true |-> refresh_log.last_true,
          last_true |-> IF r.returned THEN now ELSE refresh_log.last_true]

\* main, lines 1430-1433: a script run starts with check_daily_refresh
CheckDailyRefresh ==
    /\ refresh_log.pc \in {"idle", "rerun"}
    /\ ApplyRefresh(check_daily_refresh(now, last_data_refresh))
    /\ UNCHANGED <<pipeVars, remote_cost, cost_cache, missing_costs, now,
                   fetch_count, first_lookup, last_lookup, http, pack, win,
                   filtered, served>>

\* a fetch function under st.cache_data(ttl=300): the entry served at time
\* t, a stored one while it is younger than the ttl, else a new one
FetchOrders(cache, t) ==
    IF cache # NoInfo /\ t - cache.at < FetchOrdersTTL THEN cache
    ELSE [at |-> t]

\* render_d2c_dashboard, lines 1259-1271: no proc_ key in the session, the
\* orders are processed (c is the cost lookup of process_orders) and kept
ProcessAndShow(c, orders_at) ==
    /\ SetCostState(c.cs)
    /\ proc_cache' = [at |-> now, cost_at |-> c.at]
    /\ served' = [called |-> now, orders_at |-> orders_at, proc_at |-> now,
                  cost_at |-> c.at, after_true |-> refresh_log.last_true]
\* lines 1272-1273: the processed orders of the session are shown again
ShowProcessed(orders_at) ==
    /\ served' = [called |-> now, orders_at |-> orders_at,
                  proc_at |-> proc_cache.at, cost_at |-> proc_cache.cost_at,
                  after_true |-> refresh_log.last_true]
    /\ UNCHANGED <<cost_cache, missing_costs, fetch_memo, fetch_count,
                   first_lookup, last_lookup, proc_cache>>

\* render_d2c_dashboard, lines 1218-1275, for an order with one line item of
\* variant 1
LoadD2CDashboard ==
    /\ refresh_log.pc = "render"
    /\ data_cache' = FetchOrders(data_cache, now)
    /\ IF proc_cache = NoInfo
       THEN ProcessAndShow(get_variant_cost(CostState, 1, now, remote_cost),
                           FetchOrders(data_cache, now).at)
       ELSE ShowProcessed(FetchOrders(data_cache, now).at)
    /\ refresh_log' = [refresh_log EXCEPT !.pc = "idle"]
    /\ UNCHANGED <<pipeVars, remote_cost, now, http, pack, win, filtered,
                   last_data_refresh>>

\* main, lines 1482-1492: the Clear Cache button
ClearCacheClick ==
    /\ refresh_log.pc = "render"
    /\ data_cache' = NoInfo
    /\ proc_cache' = NoInfo
    /\ last_data_refresh' = now
    /\ refresh_log' = [refresh_log EXCEPT !.pc = "idle"]
    /\ UNCHANGED <<pipeVars, costVars, http, pack, win, filtered, served>>

\* time passes
TickRefresh ==
    /\ \E t \in RefreshInstants : t > now /\ now' = t
    /\ UNCHANGED <<pipeVars, remote_cost, cost_cache, missing_costs,
                   fetch_memo, fetch_count, first_lookup, last_lookup, http,
                   pack, appVars>>

NextRefresh ==
    \/ CheckDailyRefresh
    \/ LoadD2CDashboard
    \/ ClearCacheClick
    \/ TickRefresh

SpecRefresh == InitRefresh /\ [][NextRefresh]_vars

(***************************************************************************)
(* Properties of the daily refresh                                         *)
(***************************************************************************)
DayOf(t) == t \div 86400

C16_RefreshClearsAllCaches ==
    (served # NoInfo /\ served.after_true # NoDate) =>
        /\ served.orders_at >= served.after_true
        /\ served.proc_at >= served.after_true
        /\ served.cost_at >= served.after_true

(***************************************************************************)
(* metrics.filter_by_weekday and the Dispatch Day radio of the sidebar     *)
(***************************************************************************)
MaxFilterOrders == 3   \* longest list of processed orders handed to the filter

\* allowed_days of lines 508-512
allowed_days(include_monday, include_thursday) ==
    (IF include_monday THEN {"Monday"} ELSE {})
    \cup (IF include_thursday THEN {"Thursday"} ELSE {})

filter_by_weekday_flags(os, include_monday, include_thursday, include_all) ==
    SelectSeq(os, LAMBDA o :
        o.sent_out_weekday \in allowed_days(include_monday, include_thursday))
filter_by_weekday(os, include_monday, include_thursday, include_all) ==
    IF include_all THEN os
    ELSE SelectSeq(os, LAMBDA o :
             o.sent_out_weekday
                 \in allowed_days(include_monday, include_thursday))

\* processed orders sent out on a Monday, a Tuesday, a Thursday, a Sunday
\* and the Monday of the week after
FilterDays == {0, 1, 3, 6, 7}
ProcessedOrders ==
    {[order_id |-> 1, sent_out_at |-> d, sent_out_weekday |-> Weekday(d)] :
        d \in FilterDays}
DayFilters == {"Monday & Thursday", "Monday only", "Thursday only", "All days"}

InitFilter ==
    /\ lwStore = <<>>
    /\ shStore = <<>>
    /\ remote_cost = [v \in Variants |-> NoCost]
    /\ IdlePipe
    /\ IdleCost
    /\ http = HttpIdle
    /\ pack = NoPack
    /\ win = NoInfo
    /\ filtered \in {[processed |-> os, called |-> FALSE] :
                        os \in Lists(ProcessedOrders, MaxFilterOrders)}
    /\ IdleRefresh

\* the result of one call, with its arguments
Filtered(os, include_monday, include_thursday, include_all) ==
    [processed |-> os, called |-> TRUE,
     include_monday |-> include_monday,
     include_thursday |-> include_thursday,
     include_all |-> include_all,
     out |-> filter_by_weekday(os, include_monday, include_thursday,
                               include_all)]

\* app.py 1471-1478 and 1275: the radio sets the three flags
FilterFromSidebar ==
    /\ \E day_filter \in DayFilters :
        filtered' = Filtered(filtered.processed,
            day_filter \in {"Monday & Thursday", "Monday only", "All days"},
            day_filter \in {"Monday & Thursday", "Thursday only", "All days"},
            day_filter = "All days")
    /\ UNCHANGED <<pipeVars, costVars, http, pack, win, refreshVars>>

\* filter_by_weekday called with any flags
FilterByWeekday ==
    /\ \E include_monday \in BOOLEAN, include_thursday \in BOOLEAN,
          include_all \in BOOLEAN :
        filtered' = Filtered(filtered.processed, include_monday,
                             include_thursday, include_all)
    /\ UNCHANGED <<pipeVars, costVars, http, pack, win, refreshVars>>

NextFilter ==
    \/ FilterFromSidebar
    \/ FilterByWeekday

SpecFilter == InitFilter /\ [][NextFilter]_vars

\* s is t with some elements left out, the others in the same order
RECURSIVE IsSubSeq(_, _)
IsSubSeq(s, t) ==
    IF s = <<>> THEN TRUE
    ELSE IF t = <<>> THEN FALSE
    ELSE IF s[1] = t[1] THEN IsSubSeq(Tail(s), Tail(t))
    ELSE IsSubSeq(s, Tail(t))
Count(s, o) == Cardinality({i \in 1..Len(s) : s[i] = o})
Wanted(o) ==
    \/ filtered.include_monday /\ o.sent_out_weekday = "Monday"
    \/ filtered.include_thursday /\ o.sent_out_weekday = "Thursday"

\* C19: with include_all the result is the list given; otherwise it holds, in
\* their original order, exactly the orders given whose sent_out_weekday is
\* Monday (if include_monday) or Thursday (if include_thursday), which is
\* the empty list when both flags are False; no order is added or altered.
C19_FilterByWeekday ==
    (filtered # NoInfo /\ filtered.called) =>
        /\ filtered.include_all => filtered.out = filtered.processed
        /\ ~filtered.include_all =>
            /\ IsSubSeq(filtered.out, filtered.processed)
            /\ \A i \in 1..Len(filtered.out) : Wanted(filtered.out[i])
            /\ \A i \in 1..Len(filtered.processed) :
                Wanted(filtered.processed[i]) =>
                    Count(filtered.out, filtered.processed[i]) =
                        Count(filtered.processed, filtered.processed[i])
            /\ (~filtered.include_monday /\ ~filtered.include_thursday) =>
                filtered.out = <<>>
        /\ \A i \in 1..Len(filtered.out) :
            filtered.out[i] \in ProcessedOrders
C19_Witness ==
    /\ filtered # NoInfo
    /\ filtered.called
    /\ ~filtered.include_all
    /\ filtered.include_monday
    /\ filtered.include_thursday
    /\ Len(filtered.processed) = 3
    /\ filtered.processed[1].sent_out_weekday = "Thursday"
    /\ filtered.processed[2].sent_out_weekday = "Sunday"
    /\ filtered.processed[3].sent_out_weekday = "Monday"
    /\ filtered.out = <<filtered.processed[1], filtered.processed[3]>>

====
